---- MODULE Spec2Model ----
(***************************************************************************)
(* Model of the BookSearch Lightning web component                         *)
(* (force-app/main/default/lwc/bookSearch/bookSearch.js).                   *)
(*                                                                         *)
(* The component is single-threaded: every handler runs to its first       *)
(* await as one atomic step, and every continuation after an await         *)
(* (resolution or rejection of the Apex promise) is another atomic step.   *)
(* The Apex services and the user are the environment: their inputs are    *)
(* drawn from small sets.                                                  *)
(***************************************************************************)
EXTENDS Integers, Sequences, FiniteSets, TLC

----------------------------------------------------------------------------
(* Bounds of the model                                                     *)

\* requests of one kind (getBooks, invokeAgent, getSessionInfo) that may be
\* in flight at once
MaxInFlight == 2
\* timer ids the host may hand out (ids of dead timers are reused)
MaxTimers == 2

----------------------------------------------------------------------------
(* Program constants                                                       *)

\* setTimeout(..., 300)
Delay == 300
\* granularity of the clock, in ms
TickMs == Delay \div 2

\* the value null / undefined of a field that otherwise holds an object
Null == [null |-> TRUE]
\* book.Price__c of a record that has no price
Undefined == [type |-> "undefined"]

\* the strings the user may type into the search box
Texts == {"", "Du"}

\* what getSessionInfo resolves to
Session == [accessToken |-> "tok", sessionId |-> "sid"]

\* records of the catalog as Apex returns them; a price is written as its
\* number of thousandths and stands for the double nearest to that decimal
Book1 == [Id |-> "1", Name |-> "Dune", Price__c |-> 15000,
          Language__c |-> "English", Genre__c |-> "SciFi"]
Book2 == [Id |-> "2", Name |-> "Emma",
          Language__c |-> "English", Genre__c |-> "Romance"]
\* the lists getAllBooks / getBooks may resolve to
Results == {<<>>, <<Book1>>, <<Book2>>, <<Book1, Book2>>}
\* data-book-id values a favorite button may carry
BookIds == {"1", "2"}
\* the texts invokeAgent may resolve to
AgentTexts == {"Try Foundation", ""}

Placeholder == "No recommendations available at this time."

TimerIds == 1..MaxTimers
\* timers[id] of a timer that is not scheduled
Off == -1

----------------------------------------------------------------------------
(* State                                                                   *)

VARIABLES
    books,               \* this.books
    searchTerm,          \* this.searchTerm
    isLoading,           \* this.isLoading
    favoriteBooks,       \* this.favoriteBooks
    sessionInfo,         \* this.sessionInfo
    showRecommendations, \* this.showRecommendations
    recommendations,     \* this.recommendations
    selectedBookName,    \* this.selectedBookName
    delayTimeout,        \* this.delayTimeout (0: undefined)
    inputValue,          \* value of the lightning-input
    buttons,             \* iconName / variant last written to each button
    timers,              \* host timers: ms elapsed since setTimeout, or Off
    sessionInFlight,     \* number of getSessionInfo calls awaiting settlement
    searchInFlight,      \* getBooks calls awaiting settlement, oldest first
    agentInFlight,       \* invokeAgent calls awaiting settlement
    last,                \* the step just taken and its inputs
    toasts,              \* ShowToastEvents dispatched by the step just taken
    calls,               \* Apex calls issued by the step just taken
    burst,               \* the latest keystroke and those it follows by less than
                         \* Delay each: its text, and the texts of them all
    keyIsLast,           \* the latest write of searchTerm was a handleSearchChange
    burstSearches,       \* timer-fired searches since the latest handleSearchChange
    listSource,          \* what built this.books: "init", "wire", "search"
    connected,           \* the component is in the document
    shownFor             \* name of the book whose request this.recommendations answers

vars == <<books, searchTerm, isLoading, favoriteBooks, sessionInfo,
          showRecommendations, recommendations, selectedBookName,
          delayTimeout, inputValue, buttons, timers, sessionInFlight,
          searchInFlight, agentInFlight, last, toasts, calls,
          burst, keyIsLast, burstSearches, listSource, connected,
          shownFor>>

\* the component's own fields
compVars == <<books, searchTerm, isLoading, favoriteBooks, sessionInfo,
              showRecommendations, recommendations, selectedBookName>>

----------------------------------------------------------------------------
(* Pure helpers                                                            *)

\* the JavaScript number nearest to milli / 1000
Number(milli) == [type |-> "number", milli |-> milli]

\* book.Price__c
Price(book) ==
    IF "Price__c" \in DOMAIN book THEN Number(book.Price__c) ELSE Undefined

RECURSIVE Pow2Mod(_)
\* 2^e modulo 1000
Pow2Mod(e) == IF e = 0 THEN 1 ELSE (2 * Pow2Mod(e - 1)) % 1000

RECURSIVE Up(_)
\* for 0 < k < 1000, the s with 1000 <= k * 2^s < 2000
Up(k) == IF k >= 1000 THEN 0 ELSE 1 + Up(2 * k)

RECURSIVE Down(_)
\* for k >= 1000, the t with 1000 * 2^t <= k < 2000 * 2^t
Down(k) == IF k < 2000 THEN 0 ELSE 1 + Down(k \div 2)

\* the double nearest to k / 1000 (k > 0) is less than k / 1000: with e the
\* exponent that puts k / 1000 * 2^e in [2^52, 2^53), the 53-bit significand
\* is that number rounded to the nearest integer, and it was rounded down when
\* the remainder of k * 2^e by 1000 is positive and less than 500 (it is
\* never 500 for a number below 2^50)
doubleBelow(k) ==
    LET e == IF k < 1000 THEN 52 + Up(k) ELSE 52 - Down(k)
        r == ((k % 1000) * Pow2Mod(e)) % 1000
    IN  0 < r /\ r < 500

\* the n for which n / 100 is nearest to the double nearest to k / 1000
\* (k > 0), the larger n when two are as near: only a k that ends in 5 is near
\* enough to a midpoint for the double to decide
cents(k) ==
    IF k % 10 = 5 /\ doubleBelow(k) THEN k \div 10 ELSE (k + 5) \div 10

Digit(d) == <<"0", "1", "2", "3", "4", "5", "6", "7", "8", "9">>[d + 1]

RECURSIVE Decimal(_)
\* the decimal digits of n >= 0
Decimal(n) == IF n < 10 THEN Digit(n) ELSE Decimal(n \div 10) \o Digit(n % 10)

\* price.toFixed(2): a negative number is formatted as "-" and its magnitude
toFixed(milli) ==
    LET n == cents(IF milli < 0 THEN 0 - milli ELSE milli)
    IN  (IF milli < 0 THEN "-" ELSE "") \o Decimal(n \div 100) \o "."
            \o Digit((n % 100) \div 10) \o Digit(n % 10)

\* `$${price.toFixed(2)}`, '$0.00' for a falsy price (undefined, 0)
formatPrice(price) ==
    IF price.type = "undefined" \/ price.milli = 0
    THEN "$0.00"
    ELSE "$" \o toFixed(price.milli)

\* a message is the sequence of the parts of its template literal
showToast(title, message, variant) ==
    [title |-> title, message |-> message, variant |-> variant]

RemoveAt(s, i) == SubSeq(s, 1, i - 1) \o SubSeq(s, i + 1, Len(s))

Min(a, b) == IF a < b THEN a ELSE b

\* book => ({...book, isFavorite, priceFormatted})
withUiFields(book, isFavorite) ==
    [isFavorite |-> isFavorite, priceFormatted |-> formatPrice(Price(book))] @@ book

\* data.map(book => ({...book, isFavorite: false, ...}))
mapWired(data) ==
    [i \in 1..Len(data) |-> withUiFields(data[i], FALSE)]

\* a search that builds its books the way the wire does
mapResult_unfavorited(result, favs) == mapWired(result)

\* result.map(book => ({...book, isFavorite: this.favoriteBooks.has(book.Id), ...}))
mapResult(result, favs) ==
    [i \in 1..Len(result) |-> withUiFields(result[i], result[i].Id \in favs)]

\* this.books.find(b => b.Id === bookId): index of the first match, 0 for undefined
findBook(bks, bookId) ==
    IF \E i \in 1..Len(bks) : bks[i].Id = bookId
    THEN CHOOSE i \in 1..Len(bks) :
            /\ bks[i].Id = bookId
            /\ \A j \in 1..(i - 1) : bks[j].Id # bookId
    ELSE 0

\* what a favorite button shows
NoIcon == [iconName |-> "", variant |-> ""]
FavIcon == [iconName |-> "utility:favorite", variant |-> "brand"]
AltIcon == [iconName |-> "utility:favorite_alt", variant |-> "border-filled"]

\* a toggle that never removes an id from the set of favorites
toggleFavorite_keeps(bks, favs, btns, bookId) ==
    LET i == findBook(bks, bookId)
    IN  IF i = 0
        THEN [books |-> bks, favoriteBooks |-> favs, buttons |-> btns]
        ELSE LET now == ~bks[i].isFavorite
             IN  [books |-> [bks EXCEPT ![i].isFavorite = now],
                  favoriteBooks |-> favs \cup {bookId},
                  buttons |-> [btns EXCEPT ![bookId] =
                                  IF now THEN FavIcon ELSE AltIcon]]

\* a toggle that records an id as a favorite although no listed book has it
toggleFavorite_addsUnlisted(bks, favs, btns, bookId) ==
    LET i == findBook(bks, bookId)
    IN  IF i = 0
        THEN [books |-> bks, favoriteBooks |-> favs \cup {bookId},
              buttons |-> btns]
        ELSE LET now == ~bks[i].isFavorite
             IN  [books |-> [bks EXCEPT ![i].isFavorite = now],
                  favoriteBooks |-> IF now THEN favs \cup {bookId}
                                           ELSE favs \ {bookId},
                  buttons |-> [btns EXCEPT ![bookId] =
                                  IF now THEN FavIcon ELSE AltIcon]]

\* the synchronous part of handleFavoriteToggle on the book list, the set of
\* favorites and the buttons
toggleFavorite(bks, favs, btns, bookId) ==
    LET i == findBook(bks, bookId)
    IN  IF i = 0
        THEN [books |-> bks, favoriteBooks |-> favs, buttons |-> btns]
        ELSE LET now == ~bks[i].isFavorite
             IN  [books |-> [bks EXCEPT ![i].isFavorite = now],
                  favoriteBooks |-> IF now THEN favs \cup {bookId}
                                           ELSE favs \ {bookId},
                  buttons |-> [btns EXCEPT ![bookId] =
                                  IF now THEN FavIcon ELSE AltIcon]]

\* a handler that forgets to cancel the pending timer
clearTimeout_forgotten(tm, id) == tm

\* clearTimeout(id): a timer that is not scheduled is left alone
clearTimeout(tm, id) ==
    IF id \in DOMAIN tm THEN [tm EXCEPT ![id] = Off] ELSE tm

\* the id setTimeout returns: one that names no scheduled timer
freeTimer(tm) ==
    CHOOSE id \in DOMAIN tm :
        /\ tm[id] = Off
        /\ \A j \in DOMAIN tm : tm[j] = Off => id <= j

\* recommendations || 'No recommendations available at this time.'
orPlaceholder(text) == IF text = "" THEN Placeholder ELSE text

\* the prompt handed to the agent
agentMessage(book) ==
    [Name |-> book.Name, Language |-> book.Language__c, Genre |-> book.Genre__c]

ErrSearch == showToast("Error", <<"Failed to search books">>, "error")
ErrLoad == showToast("Error", <<"Failed to load books">>, "error")
ErrSession == showToast("Error", <<"Failed to initialize recommendation service">>, "error")
ErrNoSession == showToast("Error", <<"Recommendation service not initialized">>, "error")
ErrAgent == showToast("Error", <<"Failed to get book recommendations">>, "error")
Added(name) == showToast("Success", <<name, " added to favorites">>, "success")
Removed(name) == showToast("Success", <<name, " removed from favorites">>, "success")

\* no keystroke yet
NoBurst == [text |-> "", texts |-> {}]

----------------------------------------------------------------------------
(* Initial state: the fields as the class declares them                    *)

Init ==
    /\ books = <<>>
    /\ searchTerm = ""
    /\ isLoading = FALSE
    /\ favoriteBooks = {}
    /\ sessionInfo = Null
    /\ showRecommendations = FALSE
    /\ recommendations = ""
    /\ selectedBookName = ""
    /\ delayTimeout = 0
    /\ inputValue = ""
    /\ buttons = [id \in BookIds |-> NoIcon]
    /\ timers = [id \in TimerIds |-> Off]
    /\ sessionInFlight = 0
    /\ searchInFlight = <<>>
    /\ agentInFlight = <<>>
    /\ last = [op |-> "init"]
    /\ toasts = <<>>
    /\ calls = <<>>
    /\ burst = NoBurst
    /\ keyIsLast = FALSE
    /\ burstSearches = 0
    /\ listSource = "init"
    /\ connected = FALSE
    /\ shownFor = ""

----------------------------------------------------------------------------
(* Steps                                                                   *)

\* connectedCallback up to its await: the component is inserted, for the
\* first time or again after a removal, and asks for the session
connectedCallback ==
    /\ ~connected
    /\ sessionInFlight < MaxInFlight
    /\ sessionInFlight' = sessionInFlight + 1
    /\ connected' = TRUE
    /\ UNCHANGED shownFor
    /\ last' = [op |-> "connected"]
    /\ toasts' = <<>>
    /\ calls' = <<[fn |-> "getSessionInfo"]>>
    /\ UNCHANGED <<compVars, delayTimeout, inputValue, buttons, timers,
                   searchInFlight, agentInFlight, burst, keyIsLast,
                   burstSearches, listSource>>

\* the component is removed from the document; the class has no
\* disconnectedCallback
disconnectedCallback ==
    /\ connected
    /\ connected' = FALSE
    /\ last' = [op |-> "disconnected"]
    /\ toasts' = <<>>
    /\ calls' = <<>>
    /\ UNCHANGED <<compVars, delayTimeout, inputValue, buttons, timers,
                   sessionInFlight, searchInFlight, agentInFlight, burst,
                   keyIsLast, burstSearches, listSource, shownFor>>

\* connectedCallback after getSessionInfo resolved with info
sessionResolved(info) ==
    /\ sessionInFlight > 0
    /\ sessionInFlight' = sessionInFlight - 1
    /\ sessionInfo' = info
    /\ UNCHANGED <<connected, shownFor>>
    /\ last' = [op |-> "sessionOk"]
    /\ toasts' = <<>>
    /\ calls' = <<>>
    /\ UNCHANGED <<books, searchTerm, isLoading, favoriteBooks,
                   showRecommendations, recommendations, selectedBookName,
                   delayTimeout, inputValue, buttons, timers,
                   searchInFlight, agentInFlight, burst, keyIsLast,
                   burstSearches, listSource>>

\* a failed initialization that asks for the session once more
sessionRejected_retries ==
    /\ sessionInFlight > 0
    /\ sessionInFlight' = sessionInFlight
    /\ UNCHANGED <<connected, shownFor>>
    /\ last' = [op |-> "sessionFail"]
    /\ toasts' = <<ErrSession>>
    /\ calls' = <<[fn |-> "getSessionInfo"]>>
    /\ UNCHANGED <<compVars, delayTimeout, inputValue, buttons, timers,
                   searchInFlight, agentInFlight, burst, keyIsLast,
                   burstSearches, listSource>>

\* connectedCallback after getSessionInfo rejected
sessionRejected ==
    /\ sessionInFlight > 0
    /\ sessionInFlight' = sessionInFlight - 1
    /\ UNCHANGED <<connected, shownFor>>
    /\ last' = [op |-> "sessionFail"]
    /\ toasts' = <<ErrSession>>
    /\ calls' = <<>>
    /\ UNCHANGED <<compVars, delayTimeout, inputValue, buttons, timers,
                   searchInFlight, agentInFlight, burst, keyIsLast,
                   burstSearches, listSource>>

\* the wire adapter provisions {data}
wiredBooksData(data) ==
    /\ connected
    /\ books' = mapWired(data)
    /\ listSource' = "wire"
    /\ UNCHANGED <<connected, shownFor>>
    /\ last' = [op |-> "wireData", data |-> data]
    /\ toasts' = <<>>
    /\ calls' = <<>>
    /\ UNCHANGED <<searchTerm, isLoading, favoriteBooks, sessionInfo,
                   showRecommendations, recommendations, selectedBookName,
                   delayTimeout, inputValue, buttons, timers, sessionInFlight,
                   searchInFlight, agentInFlight, burst, keyIsLast,
                   burstSearches>>

\* the wire adapter provisions {error}
wiredBooksError ==
    /\ connected
    /\ UNCHANGED <<connected, shownFor>>
    /\ last' = [op |-> "wireError"]
    /\ toasts' = <<ErrLoad>>
    /\ calls' = <<>>
    /\ UNCHANGED <<compVars, delayTimeout, inputValue, buttons, timers,
                   sessionInFlight, searchInFlight, agentInFlight, burst,
                   keyIsLast, burstSearches, listSource>>

\* the keystroke arrives less than Delay after the one before it
inBurst ==
    /\ delayTimeout \in TimerIds
    /\ timers[delayTimeout] # Off
    /\ timers[delayTimeout] < Delay


handleSearchChange(value) ==
    LET cleared == clearTimeout(timers, delayTimeout)
    IN  /\ connected
        /\ \E id \in TimerIds : cleared[id] = Off
        /\ searchTerm' = value
        /\ inputValue' = value
        /\ delayTimeout' = freeTimer(cleared)
        /\ timers' = [cleared EXCEPT ![freeTimer(cleared)] = 0]
        /\ burst' = [text |-> value,
                     texts |-> IF inBurst THEN burst.texts \cup {value}
                                          ELSE {value}]
        /\ keyIsLast' = TRUE
        /\ burstSearches' = 0
        /\ UNCHANGED <<connected, shownFor>>
        /\ last' = [op |-> "key", value |-> value]
        /\ toasts' = <<>>
        /\ calls' = <<>>
        /\ UNCHANGED <<books, isLoading, favoriteBooks, sessionInfo,
                       showRecommendations, recommendations,
                       selectedBookName, buttons, sessionInFlight,
                       searchInFlight, agentInFlight, listSource>>

\* TickMs pass
Tick ==
    /\ \E id \in TimerIds : timers[id] # Off /\ timers[id] < Delay
    /\ timers' = [id \in TimerIds |->
                    IF timers[id] = Off THEN Off
                    ELSE Min(timers[id] + TickMs, Delay)]
    /\ UNCHANGED <<connected, shownFor>>
    /\ last' = [op |-> "tick"]
    /\ toasts' = <<>>
    /\ calls' = <<>>
    /\ UNCHANGED <<compVars, delayTimeout, inputValue, buttons, sessionInFlight,
                   searchInFlight, agentInFlight, burst, keyIsLast,
                   burstSearches, listSource>>

\* a search that returns early when the term is empty
performSearch_skipsEmpty ==
    IF searchTerm' = ""
    THEN /\ calls' = <<>>
         /\ toasts' = <<>>
         /\ UNCHANGED <<isLoading, searchInFlight>>
    ELSE /\ Len(searchInFlight) < MaxInFlight
         /\ isLoading' = TRUE
         /\ searchInFlight' = Append(searchInFlight,
                                     [searchTerm |-> searchTerm'])
         /\ calls' = <<[fn |-> "getBooks", searchTerm |-> searchTerm']>>
         /\ toasts' = <<>>

\* performSearch up to its await
performSearch ==
    /\ Len(searchInFlight) < MaxInFlight
    /\ isLoading' = TRUE
    /\ searchInFlight' = Append(searchInFlight, [searchTerm |-> searchTerm'])
    /\ calls' = <<[fn |-> "getBooks", searchTerm |-> searchTerm']>>
    /\ toasts' = <<>>

\* the callback of the timer id runs
timerFires(id) ==
    /\ timers[id] # Off
    /\ timers[id] >= Delay
    /\ timers' = [timers EXCEPT ![id] = Off]
    /\ searchTerm' = searchTerm
    /\ performSearch
    /\ burstSearches' = burstSearches + 1
    /\ UNCHANGED <<connected, shownFor>>
    /\ last' = [op |-> "timer", id |-> id]
    /\ UNCHANGED <<books, favoriteBooks, sessionInfo, showRecommendations,
                   recommendations, selectedBookName, delayTimeout,
                   inputValue, buttons, sessionInFlight, agentInFlight, burst,
                   keyIsLast, listSource>>

handleClearSearch ==
    /\ connected
    /\ searchTerm' = ""
    /\ inputValue' = ""
    /\ performSearch
    /\ keyIsLast' = FALSE
    /\ UNCHANGED <<connected, shownFor>>
    /\ last' = [op |-> "clear"]
    /\ UNCHANGED <<books, favoriteBooks, sessionInfo, showRecommendations,
                   recommendations, selectedBookName, delayTimeout, buttons,
                   timers, sessionInFlight, agentInFlight, burst, burstSearches,
                   listSource>>

\* the i-th search in flight was issued for another term than the present
\* one, and before the search whose response the step just taken applied
overtaken(i) ==
    /\ last.op = "searchOk"
    /\ i < last.earlier + 1
    /\ searchInFlight[i].searchTerm # searchTerm

\* a response that is dropped when a search issued later has been answered
searchResolved_dropsStale(i, result) ==
    /\ i \in 1..Len(searchInFlight)
    /\ IF overtaken(i)
       THEN UNCHANGED <<books, listSource>>
       ELSE /\ books' = mapResult(result, favoriteBooks)
            /\ listSource' = "search"
    /\ isLoading' = FALSE
    /\ searchInFlight' = RemoveAt(searchInFlight, i)
    /\ UNCHANGED <<connected, shownFor>>
    /\ last' = [op |-> "searchOk", result |-> result,
                afterToggle |-> last.op = "toggle" /\ last.found,
                earlier |-> i - 1,
                stale |-> overtaken(i)]
    /\ toasts' = <<>>
    /\ calls' = <<>>
    /\ UNCHANGED <<searchTerm, favoriteBooks, sessionInfo,
                   showRecommendations, recommendations, selectedBookName,
                   delayTimeout, inputValue, buttons, timers, sessionInFlight,
                   agentInFlight, burst, keyIsLast, burstSearches>>

\* a response that is appended to the list on display
searchResolved_merges(i, result) ==
    /\ i \in 1..Len(searchInFlight)
    /\ books' = books \o mapResult(result, favoriteBooks)
    /\ isLoading' = FALSE
    /\ searchInFlight' = RemoveAt(searchInFlight, i)
    /\ listSource' = "search"
    /\ UNCHANGED <<connected, shownFor>>
    /\ last' = [op |-> "searchOk", result |-> result,
                afterToggle |-> last.op = "toggle" /\ last.found,
                earlier |-> i - 1,
                stale |-> overtaken(i)]
    /\ toasts' = <<>>
    /\ calls' = <<>>
    /\ UNCHANGED <<searchTerm, favoriteBooks, sessionInfo,
                   showRecommendations, recommendations, selectedBookName,
                   delayTimeout, inputValue, buttons, timers, sessionInFlight,
                   agentInFlight, burst, keyIsLast, burstSearches>>

\* performSearch after getBooks resolved with result
searchResolved(i, result) ==
    /\ i \in 1..Len(searchInFlight)
    /\ books' = mapResult(result, favoriteBooks)
    /\ isLoading' = FALSE
    /\ searchInFlight' = RemoveAt(searchInFlight, i)
    /\ listSource' = "search"
    /\ UNCHANGED <<connected, shownFor>>
    /\ last' = [op |-> "searchOk", result |-> result,
                afterToggle |-> last.op = "toggle" /\ last.found,
                earlier |-> i - 1,
                stale |-> overtaken(i)]
    /\ toasts' = <<>>
    /\ calls' = <<>>
    /\ UNCHANGED <<searchTerm, favoriteBooks, sessionInfo,
                   showRecommendations, recommendations, selectedBookName,
                   delayTimeout, inputValue, buttons, timers, sessionInFlight,
                   agentInFlight, burst, keyIsLast, burstSearches>>

\* a failed search that empties the list
searchRejected_empties(i) ==
    /\ i \in 1..Len(searchInFlight)
    /\ books' = <<>>
    /\ isLoading' = FALSE
    /\ searchInFlight' = RemoveAt(searchInFlight, i)
    /\ UNCHANGED <<connected, shownFor>>
    /\ last' = [op |-> "searchFail"]
    /\ toasts' = <<ErrSearch>>
    /\ calls' = <<>>
    /\ UNCHANGED <<searchTerm, favoriteBooks, sessionInfo,
                   showRecommendations, recommendations, selectedBookName,
                   delayTimeout, inputValue, buttons, timers, sessionInFlight,
                   agentInFlight, burst, keyIsLast, burstSearches,
                   listSource>>

\* performSearch after getBooks rejected
searchRejected(i) ==
    /\ i \in 1..Len(searchInFlight)
    /\ isLoading' = FALSE
    /\ searchInFlight' = RemoveAt(searchInFlight, i)
    /\ UNCHANGED <<connected, shownFor>>
    /\ last' = [op |-> "searchFail"]
    /\ toasts' = <<ErrSearch>>
    /\ calls' = <<>>
    /\ UNCHANGED <<books, searchTerm, favoriteBooks, sessionInfo,
                   showRecommendations, recommendations, selectedBookName,
                   delayTimeout, inputValue, buttons, timers, sessionInFlight,
                   agentInFlight, burst, keyIsLast, burstSearches,
                   listSource>>

\* getRecommendations without its check of the session: reading accessToken
\* of null throws inside the try, before the agent is called
getRecommendations_unguarded(book, raised) ==
    IF sessionInfo = Null
    THEN /\ selectedBookName' = book.Name
         /\ isLoading' = FALSE
         /\ toasts' = Append(raised, ErrAgent)
         /\ calls' = <<>>
         /\ UNCHANGED agentInFlight
    ELSE /\ Len(agentInFlight) < MaxInFlight
         /\ selectedBookName' = book.Name
         /\ isLoading' = TRUE
         /\ agentInFlight' = Append(agentInFlight, [book |-> book.Name])
         /\ calls' = <<[fn |-> "invokeAgent",
                        accessToken |-> sessionInfo.accessToken,
                        sessionId |-> sessionInfo.sessionId,
                        Message |-> agentMessage(book)]>>
         /\ toasts' = raised

\* getRecommendations(book) up to its await, raised being the toasts the
\* calling handler has dispatched already
getRecommendations(book, raised) ==
    IF sessionInfo = Null
    THEN /\ toasts' = Append(raised, ErrNoSession)
         /\ calls' = <<>>
         /\ UNCHANGED <<selectedBookName, isLoading, agentInFlight>>
    ELSE /\ Len(agentInFlight) < MaxInFlight
         /\ selectedBookName' = book.Name
         /\ isLoading' = TRUE
         /\ agentInFlight' = Append(agentInFlight, [book |-> book.Name])
         /\ calls' = <<[fn |-> "invokeAgent",
                        accessToken |-> sessionInfo.accessToken,
                        sessionId |-> sessionInfo.sessionId,
                        Message |-> agentMessage(book)]>>
         /\ toasts' = raised

\* the step just taken was a click on the same button, of a listed book
repeats(bookId) ==
    /\ last.op = "toggle"
    /\ last.bookId = bookId
    /\ last.found

\* what a click on the button of books[i] is about to change
snapshot(i, bookId) ==
    IF i = 0
    THEN [listed |-> FALSE]
    ELSE [listed |-> TRUE, favoriteBooks |-> favoriteBooks,
          isFavorite |-> books[i].isFavorite, button |-> buttons[bookId]]

\* a click on the favorite button that carries data-book-id = bookId
handleFavoriteToggle(bookId) ==
    LET i == findBook(books, bookId)
        t == toggleFavorite(books, favoriteBooks, buttons, bookId)
    IN  /\ connected
        /\ books' = t.books
        /\ favoriteBooks' = t.favoriteBooks
        /\ buttons' = t.buttons
        /\ IF i = 0
           THEN /\ toasts' = <<>>
                /\ calls' = <<>>
                /\ UNCHANGED <<selectedBookName, isLoading, agentInFlight>>
           ELSE IF t.books[i].isFavorite
           THEN getRecommendations(t.books[i], <<Added(t.books[i].Name)>>)
           ELSE /\ toasts' = <<Removed(t.books[i].Name)>>
                /\ calls' = <<>>
                /\ UNCHANGED <<selectedBookName, isLoading, agentInFlight>>
        /\ UNCHANGED <<connected, shownFor>>
        /\ last' = [op |-> "toggle", bookId |-> bookId, found |-> i # 0,
                    favorited |-> i # 0 /\ t.books[i].isFavorite,
                    twice |-> i # 0 /\ repeats(bookId),
                    before |-> snapshot(i, bookId),
                    origin |-> IF i # 0 /\ repeats(bookId)
                               THEN last.before ELSE snapshot(i, bookId)]
        /\ UNCHANGED <<searchTerm, sessionInfo, showRecommendations,
                       recommendations, delayTimeout, inputValue, timers,
                       sessionInFlight, searchInFlight, burst, keyIsLast,
                       burstSearches, listSource>>

\* a response that leaves the loading flag set while a request is in flight
agentResolved_waitsForOthers(i, text) ==
    /\ i \in 1..Len(agentInFlight)
    /\ recommendations' = orPlaceholder(text)
    /\ showRecommendations' = TRUE
    /\ isLoading' = (Len(agentInFlight) > 1 \/ searchInFlight # <<>>)
    /\ agentInFlight' = RemoveAt(agentInFlight, i)
    /\ shownFor' = agentInFlight[i].book
    /\ UNCHANGED connected
    /\ last' = [op |-> "agentOk", book |-> agentInFlight[i].book,
                text |-> text]
    /\ toasts' = <<>>
    /\ calls' = <<>>
    /\ UNCHANGED <<books, searchTerm, favoriteBooks, sessionInfo,
                   selectedBookName, delayTimeout, inputValue, buttons,
                   timers, sessionInFlight, searchInFlight, burst, keyIsLast,
                   burstSearches, listSource>>

\* getRecommendations after invokeAgent resolved with text
agentResolved(i, text) ==
    /\ i \in 1..Len(agentInFlight)
    /\ recommendations' = orPlaceholder(text)
    /\ showRecommendations' = TRUE
    /\ isLoading' = FALSE
    /\ agentInFlight' = RemoveAt(agentInFlight, i)
    /\ shownFor' = agentInFlight[i].book
    /\ UNCHANGED connected
    /\ last' = [op |-> "agentOk", book |-> agentInFlight[i].book,
                text |-> text]
    /\ toasts' = <<>>
    /\ calls' = <<>>
    /\ UNCHANGED <<books, searchTerm, favoriteBooks, sessionInfo,
                   selectedBookName, delayTimeout, inputValue, buttons,
                   timers, sessionInFlight, searchInFlight, burst, keyIsLast,
                   burstSearches, listSource>>

\* a failed agent call that takes the favorite back
agentRejected_rollsBack(i) ==
    /\ i \in 1..Len(agentInFlight)
    /\ books' = [k \in 1..Len(books) |->
                    IF books[k].Name = agentInFlight[i].book
                    THEN [books[k] EXCEPT !.isFavorite = FALSE]
                    ELSE books[k]]
    /\ favoriteBooks' = favoriteBooks \
                            {books[k].Id : k \in {j \in 1..Len(books) :
                                books[j].Name = agentInFlight[i].book}}
    /\ isLoading' = FALSE
    /\ agentInFlight' = RemoveAt(agentInFlight, i)
    /\ UNCHANGED <<connected, shownFor>>
    /\ last' = [op |-> "agentFail", book |-> agentInFlight[i].book]
    /\ toasts' = <<ErrAgent>>
    /\ calls' = <<>>
    /\ UNCHANGED <<searchTerm, sessionInfo, showRecommendations,
                   recommendations, selectedBookName, delayTimeout,
                   inputValue, buttons, timers, sessionInFlight, searchInFlight,
                   burst, keyIsLast, burstSearches, listSource>>

\* a catch without the finally that clears the loading flag
agentRejected_keepsLoading(i) ==
    /\ i \in 1..Len(agentInFlight)
    /\ agentInFlight' = RemoveAt(agentInFlight, i)
    /\ UNCHANGED <<connected, shownFor>>
    /\ last' = [op |-> "agentFail", book |-> agentInFlight[i].book]
    /\ toasts' = <<ErrAgent>>
    /\ calls' = <<>>
    /\ UNCHANGED <<books, searchTerm, isLoading, favoriteBooks, sessionInfo,
                   showRecommendations, recommendations, selectedBookName,
                   delayTimeout, inputValue, buttons, timers, sessionInFlight,
                   searchInFlight, burst, keyIsLast, burstSearches,
                   listSource>>

\* getRecommendations after invokeAgent rejected
agentRejected(i) ==
    /\ i \in 1..Len(agentInFlight)
    /\ isLoading' = FALSE
    /\ agentInFlight' = RemoveAt(agentInFlight, i)
    /\ UNCHANGED <<connected, shownFor>>
    /\ last' = [op |-> "agentFail", book |-> agentInFlight[i].book]
    /\ toasts' = <<ErrAgent>>
    /\ calls' = <<>>
    /\ UNCHANGED <<books, searchTerm, favoriteBooks, sessionInfo,
                   showRecommendations, recommendations, selectedBookName,
                   delayTimeout, inputValue, buttons, timers, sessionInFlight,
                   searchInFlight, burst, keyIsLast, burstSearches,
                   listSource>>

\* a close that leaves the name of the selected book
handleCloseRecommendations_keepsName ==
    /\ connected
    /\ showRecommendations' = FALSE
    /\ recommendations' = ""
    /\ shownFor' = ""
    /\ UNCHANGED connected
    /\ last' = [op |-> "close", wasVisible |-> showRecommendations]
    /\ toasts' = <<>>
    /\ calls' = <<>>
    /\ UNCHANGED <<books, searchTerm, isLoading, favoriteBooks, sessionInfo,
                   selectedBookName, delayTimeout, inputValue, buttons,
                   timers, sessionInFlight, searchInFlight, agentInFlight, burst,
                   keyIsLast, burstSearches, listSource>>

\* the modal's close button
handleCloseRecommendations ==
    /\ connected
    /\ showRecommendations' = FALSE
    /\ recommendations' = ""
    /\ selectedBookName' = ""
    /\ shownFor' = ""
    /\ UNCHANGED connected
    /\ last' = [op |-> "close", wasVisible |-> showRecommendations]
    /\ toasts' = <<>>
    /\ calls' = <<>>
    /\ UNCHANGED <<books, searchTerm, isLoading, favoriteBooks, sessionInfo,
                   delayTimeout, inputValue, buttons, timers, sessionInFlight,
                   searchInFlight, agentInFlight, burst, keyIsLast,
                   burstSearches, listSource>>

----------------------------------------------------------------------------
(* Specifications                                                          *)

\* the search box, the catalog and the favorites; the session request stays
\* in flight
NextSearch ==
    \/ connectedCallback
    \/ \E data \in Results : wiredBooksData(data)
    \/ wiredBooksError
    \/ \E value \in Texts : handleSearchChange(value)
    \/ Tick
    \/ \E id \in TimerIds : timerFires(id)
    \/ handleClearSearch
    \/ \E i \in 1..MaxInFlight, result \in Results : searchResolved(i, result)
    \/ \E i \in 1..MaxInFlight : searchRejected(i)
    \/ \E bookId \in BookIds : handleFavoriteToggle(bookId)

SpecSearch == Init /\ [][NextSearch]_vars

\* the session, the favorites and the recommendations; the catalog comes
\* from the wire alone
NextReco ==
    \/ connectedCallback
    \/ \E info \in {Session, Null} : sessionResolved(info)
    \/ sessionRejected
    \/ \E data \in Results : wiredBooksData(data)
    \/ \E bookId \in BookIds : handleFavoriteToggle(bookId)
    \/ \E i \in 1..MaxInFlight, text \in AgentTexts : agentResolved(i, text)
    \/ \E i \in 1..MaxInFlight : agentRejected(i)
    \/ handleCloseRecommendations

SpecReco == Init /\ [][NextReco]_vars

\* the recommendations as a user reaches them through the page: the close
\* button is there while the view is visible, and the view covers the
\* favorite buttons
NextModal ==
    \/ connectedCallback
    \/ \E info \in {Session, Null} : sessionResolved(info)
    \/ sessionRejected
    \/ \E data \in Results : wiredBooksData(data)
    \/ \E bookId \in BookIds : ~showRecommendations /\ handleFavoriteToggle(bookId)
    \/ \E i \in 1..MaxInFlight, text \in AgentTexts : agentResolved(i, text)
    \/ \E i \in 1..MaxInFlight : agentRejected(i)
    \/ showRecommendations /\ handleCloseRecommendations

SpecModal == Init /\ [][NextModal]_vars

\* every step of the component while it stays in the document, over a
\* catalog of one book
Next ==
    \/ connectedCallback
    \/ sessionResolved(Session)
    \/ sessionRejected
    \/ wiredBooksData(<<Book1>>)
    \/ wiredBooksError
    \/ handleSearchChange("Du")
    \/ Tick
    \/ \E id \in TimerIds : timerFires(id)
    \/ handleClearSearch
    \/ \E i \in 1..MaxInFlight : searchResolved(i, <<Book1>>)
    \/ \E i \in 1..MaxInFlight : searchRejected(i)
    \/ handleFavoriteToggle("1")
    \/ \E i \in 1..MaxInFlight : agentResolved(i, "Try Foundation")
    \/ \E i \in 1..MaxInFlight : agentRejected(i)
    \/ handleCloseRecommendations

Spec == Init /\ [][Next]_vars

\* the component is inserted, removed and inserted again while its timers
\* and requests run on; the catalog comes from the searches alone
NextLifecycle ==
    \/ connectedCallback
    \/ disconnectedCallback
    \/ sessionResolved(Session)
    \/ sessionRejected
    \/ wiredBooksError
    \/ handleSearchChange("Du")
    \/ Tick
    \/ \E id \in TimerIds : timerFires(id)
    \/ handleClearSearch
    \/ \E i \in 1..MaxInFlight : searchResolved(i, <<Book1>>)
    \/ \E i \in 1..MaxInFlight : searchRejected(i)
    \/ handleFavoriteToggle("1")
    \/ \E i \in 1..MaxInFlight : agentResolved(i, "Try Foundation")
    \/ \E i \in 1..MaxInFlight : agentRejected(i)

SpecLifecycle == Init /\ [][NextLifecycle]_vars

\* the Apex call of some request in flight settles
settles ==
    \E i \in 1..MaxInFlight :
        \/ searchResolved(i, <<Book1>>)
        \/ searchRejected(i)
        \/ agentResolved(i, "Try Foundation")
        \/ agentRejected(i)

\* every step of the component, the Apex calls settling in the end
SpecSettling == Spec /\ WF_vars(settles)

----------------------------------------------------------------------------
(* Properties                                                              *)

pending == {id \in TimerIds : timers[id] # Off}

\* C1: keystrokes that follow each other within Delay issue exactly one
\* search once the input is quiet, with the text of the final keystroke, and a
\* scheduled search that a later keystroke superseded never fires: the only
\* timer that may be scheduled is the one of the latest keystroke; no search
\* has fired while it is scheduled; once it has run exactly one search has
\* fired since that keystroke; and the step of a timer issues one getBooks
\* call, which carries the text of the latest keystroke when no other handler
\* wrote the search term after it.
C1_DebounceOneSearch ==
    /\ pending \subseteq {delayTimeout}
    /\ pending # {} => burstSearches = 0
    /\ (delayTimeout # 0 /\ pending = {}) => burstSearches = 1
    /\ last.op = "timer" =>
          /\ Len(calls) = 1
          /\ calls[1].fn = "getBooks"
          /\ keyIsLast => calls[1].searchTerm = burst.text

\* a burst of two keystrokes with different texts has fired its search
C1_Witness ==
    /\ last.op = "timer"
    /\ keyIsLast
    /\ burst = [text |-> "", texts |-> {"", "Du"}]
    /\ calls = <<[fn |-> "getBooks", searchTerm |-> ""]>>

flagAgrees(book) == book.isFavorite <=> book.Id \in favoriteBooks

\* C2 as stated: in every reachable state each listed book has isFavorite =
\* TRUE exactly when its id is in the set of favorites.
C2_FlagsAlwaysAgree ==
    \A i \in 1..Len(books) : flagAgrees(books[i])

\* C2 as amended: a listed book with isFavorite = TRUE is always in the set of
\* favorites, and the flags agree with the set whenever the list was built by
\* a search response (a catalog load builds every book with isFavorite =
\* FALSE).
C2_FlagsAgreeSinceSearch ==
    /\ \A i \in 1..Len(books) : books[i].isFavorite => books[i].Id \in favoriteBooks
    /\ listSource # "wire" => \A i \in 1..Len(books) : flagAgrees(books[i])

\* a list built by a search, toggled since, holds a favorite and a book that
\* is none
C2_Witness ==
    /\ listSource = "search"
    /\ last.op = "toggle"
    /\ last.found
    /\ \E i, j \in 1..Len(books) : books[i].isFavorite /\ ~books[j].isFavorite

\* the icon and the variant handleFavoriteToggle gives a button
iconOf(isFavorite) == IF isFavorite THEN FavIcon ELSE AltIcon

\* the second of two clicks in a row on the button of one listed book has
\* brought back the set of favorites, the flag and the look of the button
restored ==
    LET i == findBook(books, last.bookId)
    IN  /\ favoriteBooks = last.origin.favoriteBooks
        /\ books[i].isFavorite = last.origin.isFavorite
        /\ buttons[last.bookId] = iconOf(last.origin.isFavorite)

secondToggle == last.op = "toggle" /\ last.twice

\* C3 as stated: from any reachable state, two toggles in succession of a
\* listed book restore the set of favorites, the flag and the button.
C3_DoubleToggleRestores ==
    secondToggle => restored

\* C3 as amended: they do when, before the first toggle, the flag of the book
\* agreed with its membership in the set of favorites.
C3_DoubleToggleRestoresAgreeing ==
    (/\ secondToggle
     /\ last.origin.isFavorite <=> last.bookId \in last.origin.favoriteBooks)
        => restored

\* a favorite has been toggled off and on again
C3_Witness ==
    /\ secondToggle
    /\ last.origin.isFavorite
    /\ last.bookId \in last.origin.favoriteBooks
    /\ last.origin.favoriteBooks = BookIds
    /\ last.origin.button = FavIcon

\* C4: a search response that is applied replaces the list by the returned
\* records, in their order, each with isFavorite set to the membership of its
\* id in the set of favorites as it is when the response is applied.
C4_SearchReplacesList ==
    last.op = "searchOk" =>
        /\ Len(books) = Len(last.result)
        /\ \A i \in 1..Len(books) :
              /\ \A f \in DOMAIN last.result[i] : books[i][f] = last.result[i][f]
              /\ DOMAIN books[i] =
                    DOMAIN last.result[i] \cup {"isFavorite", "priceFormatted"}
              /\ books[i].isFavorite = (books[i].Id \in favoriteBooks)

\* a response applied right after a favorite was toggled, the search in
\* flight, with a favorite and a book that is none among the returned records
C4_Witness ==
    /\ last.op = "searchOk"
    /\ last.afterToggle
    /\ Len(books) = 2
    /\ books[1].isFavorite
    /\ ~books[2].isFavorite

\* the error notifications among toasts
errors(ts) == SelectSeq(ts, LAMBDA t : t.variant = "error")

\* C5: favoriting a book while the session is absent calls no agent, raises
\* the one error "Recommendation service not initialized" and leaves the
\* visibility of the recommendations as it was; and no step calls the agent
\* while the session is absent.
C5_NoSessionNoAgent ==
    [][/\ (last'.op = "toggle" /\ last'.favorited /\ sessionInfo = Null) =>
              /\ calls' = <<>>
              /\ agentInFlight' = agentInFlight
              /\ errors(toasts') = <<ErrNoSession>>
              /\ showRecommendations' = showRecommendations
       /\ (\E k \in 1..Len(calls') : calls'[k].fn = "invokeAgent") =>
              sessionInfo # Null]_vars

\* a book was favorited after the initialization of the session had failed
C5_Witness ==
    /\ last.op = "toggle"
    /\ last.favorited
    /\ sessionInfo = Null
    /\ sessionInFlight = 0
    /\ toasts = <<Added("Dune"), ErrNoSession>>

\* C6: when the agent's answer for a favorited book arrives, the view is
\* visible, names the book the request was made for and holds the returned
\* text, or the placeholder for an empty one.
C6_ViewShowsRequestedBook ==
    last.op = "agentOk" =>
        /\ showRecommendations
        /\ selectedBookName = last.book
        /\ recommendations = IF last.text = "" THEN Placeholder ELSE last.text

\* C7: when the agent's call fails, the one error "Failed to get book
\* recommendations" is raised and the view is not visible afterwards.
C7_FailureHidesView ==
    last.op = "agentFail" =>
        /\ errors(toasts) = <<ErrAgent>>
        /\ ~showRecommendations

recommendationView == <<showRecommendations, recommendations, selectedBookName>>

\* C8: a failed search and a failed catalog load leave the list, the set of
\* favorites, the session and the recommendation view as they were and raise
\* exactly one notification, the error of the fetch that failed.
C8_FailedFetchKeepsState ==
    [][/\ last'.op = "searchFail" =>
              /\ toasts' = <<ErrSearch>>
              /\ UNCHANGED <<books, favoriteBooks, sessionInfo, recommendationView>>
       /\ last'.op = "wireError" =>
              /\ toasts' = <<ErrLoad>>
              /\ UNCHANGED <<books, favoriteBooks, sessionInfo, recommendationView>>
      ]_vars

\* a search has failed while a list with a favorite and the recommendations
\* were on display
C8_Witness ==
    /\ last.op = "searchFail"
    /\ Len(books) = 1
    /\ books[1].isFavorite
    /\ favoriteBooks = {"1"}
    /\ sessionInfo = Session
    /\ showRecommendations

\* C9: closing the recommendations sets the visibility to FALSE and the text
\* and the name of the selected book to the empty string, and changes
\* nothing else.
C9_CloseResetsViewOnly ==
    [][last'.op = "close" =>
          /\ showRecommendations' = FALSE
          /\ recommendations' = ""
          /\ selectedBookName' = ""
          /\ UNCHANGED <<books, favoriteBooks, sessionInfo, searchTerm,
                         isLoading, delayTimeout, inputValue, buttons,
                         timers, sessionInFlight, searchInFlight, agentInFlight>>
      ]_vars

\* recommendations on display were closed, with a list, a favorite, a session
\* and a search term in place
C9_Witness ==
    /\ last.op = "close"
    /\ last.wasVisible
    /\ books # <<>>
    /\ favoriteBooks # {}
    /\ sessionInfo = Session
    /\ searchTerm = "Du"

\* C10: the loading flag is FALSE whenever no search and no agent request is
\* in flight, and, the Apex calls settling in the end, a loading flag that is
\* TRUE becomes FALSE.
C10_LoadingCleared ==
    /\ [](searchInFlight = <<>> /\ agentInFlight = <<>> => ~isLoading)
    /\ isLoading ~> ~isLoading

\* the last request in flight, an agent request, has failed
C10_Witness ==
    /\ last.op = "agentFail"
    /\ searchInFlight = <<>>
    /\ agentInFlight = <<>>
    /\ ~isLoading

\* the component was mounted and has been removed from the document
tornDown == ~connected /\ last.op # "init"

\* C11: after the component is torn down, no step (a timer firing, a request
\* settling) changes a field of the component or raises a notification.
C11_TeardownDiscards ==
    [][tornDown => UNCHANGED compVars /\ toasts' = <<>>]_vars

\* C12: right after a click on the button of a listed book, the flag of the
\* book is the opposite of what it was and the book is in the set of favorites
\* exactly when the flag is TRUE (also when the session is missing and no
\* agent is called), and the step in which the agent call settles, resolved
\* or rejected, changes neither the list nor the set of favorites.
C12_ToggleCommits ==
    /\ [](last.op = "toggle" /\ last.found =>
            LET i == findBook(books, last.bookId)
            IN  /\ i # 0
                /\ books[i].isFavorite = ~last.before.isFavorite
                /\ (last.bookId \in favoriteBooks) = books[i].isFavorite)
    /\ [][last'.op \in {"agentOk", "agentFail"} =>
            UNCHANGED <<books, favoriteBooks>>]_vars

\* the agent call made for a favorite has failed and the book is a favorite
\* still
C12_Witness ==
    /\ last.op = "agentFail"
    /\ \E k \in 1..Len(books) :
        /\ books[k].Name = last.book
        /\ books[k].isFavorite
        /\ books[k].Id \in favoriteBooks

\* C13: the step of the clear button leaves the search term and the input
\* empty and calls getBooks with the empty term in that same step, without a
\* timer; the step of a debounce timer calls getBooks with the search term as
\* it is, the empty term included.
C13_EmptyTermSearches ==
    /\ last.op = "clear" =>
        /\ searchTerm = ""
        /\ inputValue = ""
        /\ calls = <<[fn |-> "getBooks", searchTerm |-> ""]>>
        /\ searchInFlight[Len(searchInFlight)].searchTerm = ""
    /\ last.op = "timer" =>
        /\ calls = <<[fn |-> "getBooks", searchTerm |-> searchTerm]>>
        /\ searchInFlight[Len(searchInFlight)].searchTerm = searchTerm

\* the timer of a keystroke that emptied the input has fired while the search
\* of an earlier term is in flight
C13_Witness ==
    /\ last.op = "timer"
    /\ keyIsLast
    /\ searchTerm = ""
    /\ Len(searchInFlight) = 2
    /\ searchInFlight[1].searchTerm # ""
    /\ isLoading

\* C14: a click that carries the id of no listed book changes neither the
\* list, the set of favorites, the recommendation view, the loading flag nor
\* the buttons, raises no notification and calls no agent.
C14_UnlistedToggleNoOp ==
    [][last'.op = "toggle" /\ ~last'.found =>
          /\ UNCHANGED <<books, favoriteBooks, showRecommendations,
                         recommendations, selectedBookName, isLoading,
                         agentInFlight, buttons>>
          /\ toasts' = <<>>
          /\ calls' = <<>>
      ]_vars

\* with a session, a list and a favorite in place, a click carried the id of
\* a book that is not listed
C14_Witness ==
    /\ last.op = "toggle"
    /\ ~last.found
    /\ books # <<>>
    /\ favoriteBooks # {}
    /\ sessionInfo = Session

\* the steps in which a request to a service fails
failures == {"searchFail", "wireError", "sessionFail", "agentFail"}

\* the steps that issue the request of a user's action: the mount itself, the
\* timer of a keystroke, the clear button, a favorite button
triggers == {"connected", "timer", "clear", "toggle"}

\* C15: getSessionInfo is called in the step of a mount and in no other
\* step, once in that step, and a mount is the insertion of a component that
\* is not in the document; a step in which a search, the catalog load, the
\* session initialization or an agent call fails calls no service, schedules
\* no timer and puts no request in flight; every call of a service is issued
\* by the step of a user's action.
C15_NoAutomaticRetry ==
    /\ [](\A k \in 1..Len(calls) :
            calls[k].fn = "getSessionInfo" => last.op = "connected")
    /\ [](calls # <<>> => last.op \in triggers)
    /\ [][last'.op = "connected" =>
            /\ ~connected
            /\ calls' = <<[fn |-> "getSessionInfo"]>>
            /\ sessionInFlight' = sessionInFlight + 1
         ]_vars
    /\ [][last'.op \in failures =>
            /\ calls' = <<>>
            /\ timers' = timers
            /\ Len(searchInFlight') < Len(searchInFlight) + 1
            /\ Len(agentInFlight') < Len(agentInFlight) + 1
            /\ sessionInFlight' < sessionInFlight + 1
         ]_vars

\* the session initialization has failed, then a search, and nothing is
\* scheduled or in flight afterwards
C15_Witness ==
    /\ last.op = "searchFail"
    /\ sessionInFlight = 0
    /\ sessionInfo = Null
    /\ pending = {}
    /\ searchInFlight = <<>>
    /\ agentInFlight = <<>>
    /\ calls = <<>>

\* C16: the response to a search is applied whatever the order of the
\* responses: when the search of an earlier term is answered right after a
\* search issued later, the list is replaced by the results of the earlier
\* term, although the search term is the later one.
C16_StaleResponseApplied ==
    last.op = "searchOk" /\ last.stale =>
        /\ books = mapResult(last.result, favoriteBooks)
        /\ listSource = "search"

\* two searches were in flight, the later one was answered first, and the
\* list now holds the results the earlier one returned for a term that is not
\* the search term; no search is in flight any more
C16_Witness ==
    /\ last.op = "searchOk"
    /\ last.stale
    /\ last.result # <<>>
    /\ books = mapResult(last.result, favoriteBooks)
    /\ searchInFlight = <<>>
    /\ searchTerm = ""

\* C17: whenever the recommendation view is visible, the text on display
\* answers the agent request made for the book named as the selected book.
C17_TextAnswersSelectedBook ==
    showRecommendations => shownFor = selectedBookName

\* the steps in which a search or an agent call settles
settlements == {"searchOk", "searchFail", "agentOk", "agentFail"}

\* C18 as claimed: the loading flag is TRUE whenever a search or an agent
\* request is in flight.
C18_LoadingWhileInFlight ==
    searchInFlight # <<>> \/ agentInFlight # <<>> => isLoading

\* C18: the loading flag is TRUE right after a step that issues a search or
\* an agent request and FALSE right after a step in which any request
\* settles, whatever else is in flight; a loading flag that is TRUE means a
\* request is in flight.
C18_LoadingUntilNextSettlement ==
    /\ last.op \in settlements => ~isLoading
    /\ (\E k \in 1..Len(calls) : calls[k].fn \in {"getBooks", "invokeAgent"})
            => isLoading
    /\ isLoading => searchInFlight # <<>> \/ agentInFlight # <<>>

\* an agent request was answered while a search was in flight: the loading
\* flag is FALSE and the search is in flight still
C18_Witness ==
    /\ last.op = "agentOk"
    /\ searchInFlight # <<>>
    /\ ~isLoading

\* C19: the step of the clear button issues one search, and no debounce timer
\* fires after it unless a keystroke has scheduled one since: the timer that
\* was pending when the button was clicked never runs.
C19_ClearSupersedesTimer ==
    /\ last.op = "clear" => Len(calls) = 1
    /\ last.op = "timer" => keyIsLast

\* the recommendation view as handleCloseRecommendations leaves it
hidden ==
    /\ ~showRecommendations
    /\ recommendations = ""
    /\ selectedBookName = ""

\* C20: a recommendation view that is hidden, with empty text and empty
\* name, stays so in every step that is not a click that favorites a book:
\* a request in flight when the view was closed does not reopen it.
C20_ClosedStaysClosed ==
    [][hidden /\ ~(last'.op = "toggle" /\ last'.favorited) => hidden']_vars

====
